---- MODULE Spec2Model ----
(***************************************************************************)
(* Model of dipbot (src/main.py): the Sensex/Nifty monitor bot.            *)
(*                                                                         *)
(* State: the module globals alerts_paused and MORNING_UPDATE_TIME, the    *)
(* job queue (the repeating check job, the run-once arming job and the     *)
(* daily morning jobs), and the check_prices coroutines that are suspended *)
(* at a send.  Time is in seconds of the scheduler's clock (UTC).          *)
(***************************************************************************)
EXTENDS Integers, Sequences, FiniteSets, TLC

VARIABLES
    now,                  \* scheduler clock, whole seconds (UTC) since 00:00 of day 0
    alerts_paused,        \* global alerts_paused (line 57)
    MORNING_UPDATE_TIME,  \* global MORNING_UPDATE_TIME, a string (line 54)
    jobs,                 \* the jobs of application.job_queue
    running,              \* check_prices coroutines suspended at a send
    last,                 \* journal of the check_prices run that returned in the step just taken
    today,                \* ledger of the current calendar date (digest fires, reconfigures)
    reply,                \* what the command handler of the step just taken replied
    probe                 \* input and result of a pure-function evaluation

vars == <<now, alerts_paused, MORNING_UPDATE_TIME, jobs, running, last, today,
          reply, probe>>

\* ------------------------------------------------------------------ bounds
\* The clock runs through the first Horizon hours after 00:00 UTC of day 0:
\* all of date 0 and the morning of date 1.
Horizon == 29
\* The longest series of closing prices calculate_price_change is evaluated on.
MaxSeries == 3

\* ------------------------------------------------------- program constants
DaySeconds == 86400
\* pytz Asia/Kolkata: UTC+05:30.
IstOffset == 19800
\* CHECK_INTERVAL, read from the environment; this deployment sets six hours.
CHECK_INTERVAL == 21600
\* run_repeating(..., first=10)
FirstCheck == 10
\* Thresholds are fractions; the model writes them in thousandths.
Scale == 1000

\* ALERT_LEVELS with the default thresholds -0.01, -0.03, -0.06.
ALERT_LEVELS ==
    << [threshold |-> -10, prefix |-> "ALERT"],
       [threshold |-> -30, prefix |-> "WARNING"],
       [threshold |-> -60, prefix |-> "CRITICAL"] >>

\* ------------------------------------------------------------ strings
\* A string is the sequence of its characters.
Digits == {"0", "1", "2", "3", "4", "5", "6", "7", "8", "9"}

DigitValue(c) ==
    CASE c = "0" -> 0 [] c = "1" -> 1 [] c = "2" -> 2 [] c = "3" -> 3
      [] c = "4" -> 4 [] c = "5" -> 5 [] c = "6" -> 6 [] c = "7" -> 7
      [] c = "8" -> 8 [] c = "9" -> 9

\* One or two decimal digits, as the directives %H and %M accept.
IsNumber(s) == Len(s) \in {1, 2} /\ \A i \in 1..Len(s) : s[i] \in Digits

NumberValue(s) ==
    IF Len(s) = 1 THEN DigitValue(s[1]) ELSE 10 * DigitValue(s[1]) + DigitValue(s[2])

\* datetime.strptime(s, "%H:%M"): the hour and minute; valid is FALSE where
\* strptime raises ValueError.
Strptime(s) ==
    LET colons == {i \in 1..Len(s) : s[i] = ":"}
        bad == [valid |-> FALSE, hour |-> 0, minute |-> 0]
    IN
    IF Cardinality(colons) # 1 THEN bad
    ELSE LET k == CHOOSE i \in colons : TRUE
             hh == SubSeq(s, 1, k - 1)
             mm == SubSeq(s, k + 1, Len(s))
         IN IF IsNumber(hh) /\ IsNumber(mm)
            THEN IF NumberValue(hh) <= 23 /\ NumberValue(mm) <= 59
                 THEN [valid |-> TRUE, hour |-> NumberValue(hh), minute |-> NumberValue(mm)]
                 ELSE bad
            ELSE bad

\* A variant that takes the IST string for a UTC time of day.
ist_to_utc_no_offset(ist_time_str) ==
    LET t == Strptime(ist_time_str) IN t.hour * 3600 + t.minute * 60

\* ist_to_utc(ist_time_str).time(): the IST time of day as a UTC time of day,
\* in seconds after 00:00 UTC.  Only the time of day of the result is used.
ist_to_utc(ist_time_str) ==
    LET t == Strptime(ist_time_str)
        ist == t.hour * 3600 + t.minute * 60
    IN (ist + DaySeconds - IstOffset) % DaySeconds

\* ------------------------------------------------------------ clock
Date(t) == t \div DaySeconds
TimeOfDay(t) == t % DaySeconds

\* A variant of the cron trigger whose first fire is always on the next date.
CronNextDate(tod, t) == (Date(t) + 1) * DaySeconds + tod

\* The cron trigger of run_daily: the first instant after t whose time of day
\* is tod (every day of the week is enabled).
CronNextFireTime(tod, t) ==
    LET sameDay == Date(t) * DaySeconds + tod
    IN IF sameDay > t THEN sameDay ELSE sameDay + DaySeconds

\* ------------------------------------------------------------ quotes
\* What get_stock_data can hand back: a series of closing prices, oldest
\* first, or an exception of the data provider.
PriceSeries == { <<1000>>, <<930, 1000, 1004>>, <<1004, 1000, 930>> }

FetchResults ==
    {[ok |-> TRUE, close |-> s] : s \in PriceSeries} \cup {[ok |-> FALSE, close |-> <<>>]}

\* The triple (None, None, None).
NoQuote == [none |-> TRUE, current |-> 0, previous_close |-> 0, price_change |-> <<0, 1>>]

\* A variant that reads the two oldest closing prices.
calculate_price_change_from_head(data) ==
    IF Len(data) < 2 THEN NoQuote
    ELSE LET current_price == data[2]
             previous_close == data[1]
         IN [none |-> FALSE, current |-> current_price, previous_close |-> previous_close,
             price_change |-> <<current_price - previous_close, previous_close>>]

\* calculate_price_change(data).  price_change is the fraction
\* (current - previous) / previous, kept as <<numerator, denominator>>.
calculate_price_change(data) ==
    IF Len(data) < 2 THEN NoQuote
    ELSE LET current_price == data[Len(data)]
             previous_close == data[Len(data) - 1]
         IN [none |-> FALSE, current |-> current_price, previous_close |-> previous_close,
             price_change |-> <<current_price - previous_close, previous_close>>]

\* price_change >= threshold and price_change <= threshold, the threshold in
\* thousandths; the denominator of a price_change is positive.
ChangeGE(price_change, threshold) == price_change[1] * Scale >= threshold * price_change[2]
ChangeLE(price_change, threshold) == price_change[1] * Scale <= threshold * price_change[2]

\* The condition of the if in check_and_send_alert (line 206).
LevelMatches(level, price_change) ==
    \/ level.threshold > 0 /\ ChangeGE(price_change, level.threshold)
    \/ level.threshold < 0 /\ ChangeLE(price_change, level.threshold)

\* The loop of check_and_send_alert over reversed(levels), from position i
\* down: the position of the level send_alert is called with, 0 when the loop
\* ends without a send.
RECURSIVE ScanLevels(_, _, _)
ScanLevels(levels, i, price_change) ==
    IF i = 0 THEN 0
    ELSE IF LevelMatches(levels[i], price_change) THEN i
    ELSE ScanLevels(levels, i - 1, price_change)

\* A variant that scans the levels in list order, lowest first.
check_and_send_alert_in_list_order(levels, price_change) ==
    LET hit == {i \in 1..Len(levels) : LevelMatches(levels[i], price_change)} IN
    IF hit = {} THEN 0 ELSE CHOOSE i \in hit : \A k \in hit : i <= k

check_and_send_alert(levels, price_change) == ScanLevels(levels, Len(levels), price_change)

\* ------------------------------------------------------------ messages
\* send_alert: the message handed to context.bot.send_message.
send_alert(index_name, quote, alert_level) ==
    [kind |-> "alert", index_name |-> index_name, prefix |-> alert_level.prefix,
     threshold |-> alert_level.threshold,
     direction |-> IF quote.price_change[1] > 0 THEN "up" ELSE "down"]

\* send_daily_status: the daily market update.
send_daily_status(sensex, nifty) ==
    [kind |-> "digest", index_name |-> "Sensex+Nifty", prefix |-> "Daily Market Update",
     threshold |-> 0,
     direction |-> IF sensex.price_change[1] >= 0 THEN "up" ELSE "down"]

\* ------------------------------------------------------------ check_prices
\* A run of check_prices: context.job.data of the job that started it, the two
\* quotes, where it is suspended (pc), what the test of alerts_paused on line
\* 185 read, the messages it has handed to send_message so far, and how it
\* returned ("ok", or "error" when the except clause of line 193 caught).
Run(job, sensex, nifty) ==
    [is_morning_update |-> job.is_morning_update,
     sensex |-> sensex, nifty |-> nifty,
     pc |-> "start", gate_read |-> "unread", sent |-> <<>>, outcome |-> "running"]

NoRun ==
    [is_morning_update |-> FALSE, sensex |-> NoQuote, nifty |-> NoQuote,
     pc |-> "never", gate_read |-> "unread", sent |-> <<>>, outcome |-> "never"]

Returned(r, outcome) == [r EXCEPT !.pc = "returned", !.outcome = outcome]

\* Lines 189-191: the Nifty alert, the last statement of the try block.
NiftyAlert(r) ==
    LET k == check_and_send_alert(ALERT_LEVELS, r.nifty.price_change) IN
    IF k # 0
    THEN [r EXCEPT !.pc = "alert_nifty",
                   !.sent = Append(@, send_alert("Nifty", r.nifty, ALERT_LEVELS[k]))]
    ELSE Returned(r, "ok")

\* Lines 186-188: the Sensex alert; the run goes on to Nifty when no level
\* matches.
SensexAlert(r) ==
    LET k == check_and_send_alert(ALERT_LEVELS, r.sensex.price_change) IN
    IF k # 0
    THEN [r EXCEPT !.pc = "alert_sensex",
                   !.sent = Append(@, send_alert("Sensex", r.sensex, ALERT_LEVELS[k]))]
    ELSE NiftyAlert(r)

\* A variant that evaluates the alerts whatever alerts_paused reads.
AlertsWhetherPaused(r, paused) ==
    SensexAlert([r EXCEPT !.gate_read = IF paused THEN "paused" ELSE "active"])

\* Line 185: if not alerts_paused.
AlertsIfNotPaused(r, paused) ==
    IF ~paused THEN SensexAlert([r EXCEPT !.gate_read = "active"])
    ELSE Returned([r EXCEPT !.gate_read = "paused"], "ok")

\* Lines 177-181: a morning run awaits send_daily_status first.
MorningUpdate(r, paused) ==
    IF r.is_morning_update
    THEN [r EXCEPT !.pc = "daily_status",
                   !.sent = Append(@, send_daily_status(r.sensex, r.nifty))]
    ELSE AlertsIfNotPaused(r, paused)

\* A variant that stops only on a missing Sensex quote.
check_prices_sensex_only(job, sensex_data, nifty_data, paused) ==
    IF ~sensex_data.ok \/ ~nifty_data.ok
    THEN Returned(Run(job, NoQuote, NoQuote), "error")
    ELSE LET sensex == calculate_price_change(sensex_data.close)
             nifty == calculate_price_change(nifty_data.close)
             r == Run(job, sensex, nifty)
         IN IF sensex.none THEN Returned(r, "error")
            ELSE MorningUpdate(r, paused)

\* check_prices from its first line to its first suspension (or its return).
\* A fetch that raises, and the format of a None change with :.2% on lines
\* 166-171 (a TypeError), both end in the except clause; the test of line 173
\* comes after that format.
check_prices(job, sensex_data, nifty_data, paused) ==
    IF ~sensex_data.ok \/ ~nifty_data.ok
    THEN Returned(Run(job, NoQuote, NoQuote), "error")
    ELSE LET sensex == calculate_price_change(sensex_data.close)
             nifty == calculate_price_change(nifty_data.close)
             r == Run(job, sensex, nifty)
         IN IF sensex.none \/ nifty.none THEN Returned(r, "error")
            ELSE MorningUpdate(r, paused)

\* A variant in which every delivered send is followed by the reset.
PausedAfterAnySend(r, delivered, paused) == IF delivered THEN FALSE ELSE paused

\* alerts_paused once the send a run is suspended at has returned (delivered)
\* or raised: line 182 follows the await of line 179.
PausedAfterSend(r, delivered, paused) ==
    IF delivered /\ r.pc = "daily_status" THEN FALSE ELSE paused

\* check_prices from the send it is suspended at to its next suspension or
\* its return.  A send that raises ends the run in the except clause.
Resume(r, delivered, paused) ==
    IF ~delivered THEN Returned(r, "error")
    ELSE CASE r.pc = "daily_status" ->
                AlertsIfNotPaused(r, PausedAfterSend(r, delivered, paused))
           [] r.pc = "alert_sensex" -> NiftyAlert(r)
           [] r.pc = "alert_nifty" -> Returned(r, "ok")

\* ------------------------------------------------------------ job queue
\* run_repeating(check_prices, interval=CHECK_INTERVAL, first=10, ...)
CheckJob(t) ==
    [callback |-> "check_prices", is_morning_update |-> FALSE,
     trigger |-> "interval", param |-> CHECK_INTERVAL, next_run_time |-> t + FirstCheck]

\* run_once(update_morning_job, when=0, data={'application': application})
ArmJob(t) ==
    [callback |-> "update_morning_job", is_morning_update |-> FALSE,
     trigger |-> "date", param |-> 0, next_run_time |-> t]

\* run_daily(check_prices, time=utc_time.time(), days=all, data={'is_morning_update': True})
MorningJob(tod, t) ==
    [callback |-> "check_prices", is_morning_update |-> TRUE,
     trigger |-> "cron", param |-> tod, next_run_time |-> CronNextFireTime(tod, t)]

\* A variant in which a job that has run is gone from the queue.
RunOnce(js, j) == js \ {j}

\* A variant that removes every job whose callback is check_prices.
update_morning_job_by_callback(js, time_str, t) ==
    {j \in js : j.callback # "check_prices"} \cup {MorningJob(ist_to_utc(time_str), t)}

\* A variant that adds the daily job and removes none.
update_morning_job_keeping_old(js, time_str, t) ==
    js \cup {MorningJob(ist_to_utc(time_str), t)}

\* update_morning_job at instant t: every job whose data says
\* is_morning_update is removed, then one daily job is added.
update_morning_job(js, time_str, t) ==
    {j \in js : ~j.is_morning_update} \cup {MorningJob(ist_to_utc(time_str), t)}

\* The run time after the one that has just come due.
NextRunTime(j) ==
    IF j.trigger = "interval" THEN j.next_run_time + j.param
    ELSE CronNextFireTime(j.param, j.next_run_time)

Rescheduled(js, j) == (js \ {j}) \cup {[j EXCEPT !.next_run_time = NextRunTime(j)]}

MorningJobs == {j \in jobs : j.is_morning_update}

Due(j) == j.next_run_time <= now

\* ------------------------------------------------------------ calendar ledger
NewDay ==
    [fires |-> 0, reconfigured |-> FALSE, owed |-> FALSE, ahead |-> FALSE,
     fired_before |-> FALSE]

\* The ledger after a successful set_morning_time at instant t.  owed: when
\* the date's first reconfiguration came, the date had had its digest or the
\* armed trigger was still to fire on it.  ahead: the new time of day was
\* still to come on the date.  fired_before: a digest had fired on the date.
Reconfigured(d, js, tod, t) ==
    [d EXCEPT !.reconfigured = TRUE,
              !.owed = IF ~d.reconfigured
                       THEN d.fires > 0 \/ \E j \in js : j.is_morning_update
                                                /\ Date(j.next_run_time) = Date(t)
                       ELSE @,
              !.ahead = tod > TimeOfDay(t),
              !.fired_before = d.fires > 0]

\* ------------------------------------------------------------ inputs
T0700 == <<"0", "7", ":", "0", "0">>
T0915 == <<"0", "9", ":", "1", "5">>
T1100 == <<"1", "1", ":", "0", "0">>
T2500 == <<"2", "5", ":", "0", "0">>
T915 == <<"9", "1", "5">>

TimeStrings == {T0700, T0915, T1100}
ArgSamples == {<<>>, <<T0700>>, <<T0915>>, <<T1100>>, <<T2500>>, <<T915>>, <<T0915, T1100>>}

\* The process starts at 02:30:00 UTC (08:00 IST), at 03:44:50 UTC, ten
\* seconds before 09:15 IST, or at 04:30:00 UTC (10:00 IST).
StartTimes == {2 * 3600 + 30 * 60, 3 * 3600 + 44 * 60 + 50, 4 * 3600 + 30 * 60}

NoReply == [command |-> "", result |-> "", time |-> <<>>, utc |-> -1]
ProbeIdle ==
    [fn |-> "idle", levels |-> <<>>, data |-> <<>>, change |-> <<0, 1>>, result |-> 0,
     quote |-> NoQuote]

\* ------------------------------------------------------------ the state machine
\* main(): global initialisers, then the two jobs main() queues.
Init ==
    /\ now \in StartTimes
    /\ alerts_paused = FALSE
    /\ MORNING_UPDATE_TIME = T0915
    /\ jobs = {CheckJob(now), ArmJob(now)}
    /\ running = {}
    /\ last = NoRun
    /\ today = NewDay
    /\ reply = NoReply
    /\ probe = ProbeIdle

\* The run-once job calls update_morning_job and is gone from the queue.
RunArmJob ==
    \E j \in jobs :
        /\ j.callback = "update_morning_job"
        /\ Due(j)
        /\ jobs' = update_morning_job(jobs \ {j}, MORNING_UPDATE_TIME, now)
        /\ last' = NoRun
        /\ reply' = NoReply
        /\ UNCHANGED <<now, alerts_paused, MORNING_UPDATE_TIME, running, today, probe>>

\* A check_prices job comes due: the scheduler starts check_prices, which
\* runs to its first send or to its return.
FireCheckPrices ==
    \E j \in jobs, sensex_data \in FetchResults, nifty_data \in FetchResults :
        /\ j.callback = "check_prices"
        /\ Due(j)
        /\ LET r == check_prices(j, sensex_data, nifty_data, alerts_paused) IN
           IF r.pc = "returned"
           THEN last' = r /\ running' = running
           ELSE running' = running \cup {r} /\ last' = NoRun
        /\ jobs' = Rescheduled(jobs, j)
        /\ today' = IF j.is_morning_update THEN [today EXCEPT !.fires = @ + 1] ELSE today
        /\ reply' = NoReply
        /\ UNCHANGED <<now, alerts_paused, MORNING_UPDATE_TIME, probe>>

\* The send a run is suspended at returns or raises, and the run goes on.
SendReturns ==
    \E r \in running, delivered \in BOOLEAN :
        /\ alerts_paused' = PausedAfterSend(r, delivered, alerts_paused)
        /\ LET n == Resume(r, delivered, alerts_paused) IN
           IF n.pc = "returned"
           THEN last' = n /\ running' = running \ {r}
           ELSE running' = (running \ {r}) \cup {n} /\ last' = NoRun
        /\ reply' = NoReply
        /\ UNCHANGED <<now, MORNING_UPDATE_TIME, jobs, today, probe>>

\* /stop_alerts
stop_alerts ==
    /\ alerts_paused' = TRUE
    /\ reply' = [NoReply EXCEPT !.command = "stop_alerts", !.result = "Alerts Paused"]
    /\ last' = NoRun
    /\ UNCHANGED <<now, MORNING_UPDATE_TIME, jobs, running, today, probe>>

\* /resume_alerts
resume_alerts ==
    /\ alerts_paused' = FALSE
    /\ reply' = [NoReply EXCEPT !.command = "resume_alerts", !.result = "Alerts Resumed"]
    /\ last' = NoRun
    /\ UNCHANGED <<now, MORNING_UPDATE_TIME, jobs, running, today, probe>>

\* /status
get_status ==
    /\ reply' = [NoReply EXCEPT !.command = "status",
                                !.result = IF alerts_paused THEN "Paused" ELSE "Active",
                                !.time = MORNING_UPDATE_TIME,
                                !.utc = CHECK_INTERVAL \div 60]
    /\ last' = NoRun
    /\ UNCHANGED <<now, alerts_paused, MORNING_UPDATE_TIME, jobs, running, today, probe>>

\* The reply of manual_check to what the two fetches hand back.
ManualCheckReply(sensex_data, nifty_data) ==
    IF ~sensex_data.ok \/ ~nifty_data.ok
    THEN [NoReply EXCEPT !.command = "check", !.result = "Error"]
    ELSE LET sensex == calculate_price_change(sensex_data.close)
             nifty == calculate_price_change(nifty_data.close)
         IN IF sensex.none \/ nifty.none
            THEN [NoReply EXCEPT !.command = "check", !.result = "Insufficient Data"]
            ELSE [NoReply EXCEPT !.command = "check", !.result = "Current Stock Prices"]

\* /check
manual_check ==
    \E answer \in {ManualCheckReply(s, n) : s \in FetchResults, n \in FetchResults} :
        /\ reply' = answer
        /\ last' = NoRun
        /\ UNCHANGED <<now, alerts_paused, MORNING_UPDATE_TIME, jobs, running, today, probe>>

\* A variant of set_morning_time that assigns MORNING_UPDATE_TIME before the
\* format of the new time is validated.
set_morning_time_assign_first ==
    \E args \in ArgSamples :
        /\ last' = NoRun
        /\ IF Len(args) # 1
           THEN /\ reply' = [NoReply EXCEPT !.command = "set_morning_time",
                                            !.result = "usage"]
                /\ UNCHANGED <<now, alerts_paused, MORNING_UPDATE_TIME, jobs, running,
                               today, probe>>
           ELSE LET new_time == args[1] IN
                IF ~Strptime(new_time).valid
                THEN /\ MORNING_UPDATE_TIME' = new_time
                     /\ reply' = [NoReply EXCEPT !.command = "set_morning_time",
                                                 !.result = "Invalid time format"]
                     /\ UNCHANGED <<now, alerts_paused, jobs, running, today, probe>>
                ELSE /\ MORNING_UPDATE_TIME' = new_time
                     /\ jobs' = update_morning_job(jobs, new_time, now)
                     /\ today' = Reconfigured(today, jobs, ist_to_utc(new_time), now)
                     /\ reply' = [NoReply EXCEPT !.command = "set_morning_time",
                                                 !.result = "set",
                                                 !.time = new_time,
                                                 !.utc = ist_to_utc(new_time)]
                     /\ UNCHANGED <<now, alerts_paused, running, probe>>

\* A variant of set_morning_time that assigns MORNING_UPDATE_TIME and leaves
\* the queue as it is.
set_morning_time_without_update ==
    \E args \in ArgSamples :
        /\ last' = NoRun
        /\ IF Len(args) # 1 \/ ~Strptime(args[1]).valid
           THEN /\ reply' = [NoReply EXCEPT !.command = "set_morning_time",
                                            !.result = IF Len(args) # 1 THEN "usage"
                                                       ELSE "Invalid time format"]
                /\ UNCHANGED <<now, alerts_paused, MORNING_UPDATE_TIME, jobs, running,
                               today, probe>>
           ELSE /\ MORNING_UPDATE_TIME' = args[1]
                /\ today' = Reconfigured(today, jobs, ist_to_utc(args[1]), now)
                /\ reply' = [NoReply EXCEPT !.command = "set_morning_time",
                                            !.result = "set",
                                            !.time = args[1],
                                            !.utc = ist_to_utc(args[1])]
                /\ UNCHANGED <<now, alerts_paused, jobs, running, probe>>

\* /set_morning_time with the words after the command as args.
set_morning_time ==
    \E args \in ArgSamples :
        /\ last' = NoRun
        /\ IF Len(args) # 1
           THEN /\ reply' = [NoReply EXCEPT !.command = "set_morning_time",
                                            !.result = "usage"]
                /\ UNCHANGED <<now, alerts_paused, MORNING_UPDATE_TIME, jobs, running,
                               today, probe>>
           ELSE LET new_time == args[1] IN
                IF ~Strptime(new_time).valid
                THEN /\ reply' = [NoReply EXCEPT !.command = "set_morning_time",
                                                 !.result = "Invalid time format"]
                     /\ UNCHANGED <<now, alerts_paused, MORNING_UPDATE_TIME, jobs, running,
                                    today, probe>>
                ELSE /\ MORNING_UPDATE_TIME' = new_time
                     /\ jobs' = update_morning_job(jobs, new_time, now)
                     /\ today' = Reconfigured(today, jobs, ist_to_utc(new_time), now)
                     /\ reply' = [NoReply EXCEPT !.command = "set_morning_time",
                                                 !.result = "set",
                                                 !.time = new_time,
                                                 !.utc = ist_to_utc(new_time)]
                     /\ UNCHANGED <<now, alerts_paused, running, probe>>

\* The instants the clock stops at: every run time in the queue, every
\* midnight, and every time of day a morning job can be set to.
ClockStops ==
    {j.next_run_time : j \in jobs}
      \cup {(Date(now) + 1) * DaySeconds}
      \cup {CronNextFireTime(ist_to_utc(s), now) : s \in TimeStrings}

\* Time passes to the next such instant.  The scheduler lets no due job wait,
\* and a send returns or times out well before the next instant.
AdvanceClock ==
    /\ ~\E j \in jobs : Due(j)
    /\ running = {}
    /\ LET next == CHOOSE t \in ClockStops : \A u \in ClockStops : t <= u IN
       /\ next <= Horizon * 3600
       /\ now' = next
       /\ today' = IF Date(next) > Date(now) THEN NewDay ELSE today
    /\ last' = NoRun
    /\ reply' = NoReply
    /\ UNCHANGED <<alerts_paused, MORNING_UPDATE_TIME, jobs, running, probe>>

Next ==
    \/ RunArmJob
    \/ FireCheckPrices
    \/ SendReturns
    \/ stop_alerts
    \/ resume_alerts
    \/ get_status
    \/ manual_check
    \/ set_morning_time
    \/ AdvanceClock

Spec == Init /\ [][Next]_vars

\* ------------------------------------------------------------ the bot left running
\* run_polling never returns: the job queue goes on from date to date.  Once
\* a date is over, instants are counted from its successor's 00:00 UTC, so
\* the dates the queue runs through are not bounded by Horizon.
NextDate ==
    /\ now >= DaySeconds
    /\ now' = now - DaySeconds
    /\ jobs' = {[j EXCEPT !.next_run_time = @ - DaySeconds] : j \in jobs}
    /\ UNCHANGED <<alerts_paused, MORNING_UPDATE_TIME, running, last, today, reply, probe>>

\* A check_prices job comes due and both fetches hand back a series that
\* calculate_price_change can work with.
FireWithData ==
    /\ FireCheckPrices
    /\ \/ running' # running
       \/ ~last'.sensex.none /\ ~last'.nifty.none

\* The steps of the bot left running with the digest time it started with:
\* nobody sends /set_morning_time.
LiveNext ==
    \/ RunArmJob
    \/ FireCheckPrices
    \/ SendReturns
    \/ stop_alerts
    \/ resume_alerts
    \/ get_status
    \/ manual_check
    \/ AdvanceClock
    \/ NextDate

\* The scheduler starts every due job, a send returns or times out, time
\* passes, and the data provider does not fail for ever.
FairSpec ==
    /\ Init /\ [][LiveNext]_vars
    /\ WF_vars(RunArmJob) /\ WF_vars(FireCheckPrices) /\ WF_vars(SendReturns)
    /\ WF_vars(AdvanceClock) /\ WF_vars(NextDate)
    /\ SF_vars(FireWithData)

\* ------------------------------------------------------------ pure functions
\* Tier sets in ascending magnitude, a tier's sign its direction; a zero
\* threshold has no direction.
TierSets ==
    { << [threshold |-> a, prefix |-> "ALERT"],
         [threshold |-> b, prefix |-> "WARNING"],
         [threshold |-> c, prefix |-> "CRITICAL"] >> :
      a \in {-10, 0, 10}, b \in {-30, 30}, c \in {-60, 60} }

\* Changes as fractions: thousandths, and -7/100, 3/50, -1/200.
Changes ==
    { <<n, 1000>> : n \in {-70, -60, -59, -40, -30, -29, -10, -5, 0, 4, 10, 30, 59, 60, 70} }
      \cup { <<-7, 100>>, <<3, 50>>, <<-1, 200>> }

\* Closing prices, and every series of at most MaxSeries of them.
Prices == {930, 1000, 1004}
SeriesSamples == UNION {[1..n -> Prices] : n \in 0..MaxSeries}

ProbeInit ==
    /\ now = 0
    /\ alerts_paused = FALSE
    /\ MORNING_UPDATE_TIME = T0915
    /\ jobs = {}
    /\ running = {}
    /\ last = NoRun
    /\ today = NewDay
    /\ reply = NoReply
    /\ probe \in { [ProbeIdle EXCEPT !.fn = "check_and_send_alert", !.levels = l,
                                     !.change = c, !.result = -1] :
                   l \in TierSets, c \in Changes }
                 \cup { [ProbeIdle EXCEPT !.fn = "calculate_price_change", !.data = d,
                                          !.result = -1] : d \in SeriesSamples }

\* check_and_send_alert is evaluated on the probe's input.
Classify ==
    /\ probe.fn = "check_and_send_alert"
    /\ probe.result = -1
    /\ probe' = [probe EXCEPT !.result = check_and_send_alert(probe.levels, probe.change)]
    /\ UNCHANGED <<now, alerts_paused, MORNING_UPDATE_TIME, jobs, running, last, today,
                   reply>>

\* calculate_price_change is evaluated on the probe's series.
Measure ==
    /\ probe.fn = "calculate_price_change"
    /\ probe.result = -1
    /\ probe' = [probe EXCEPT !.result = 1, !.quote = calculate_price_change(probe.data)]
    /\ UNCHANGED <<now, alerts_paused, MORNING_UPDATE_TIME, jobs, running, last, today,
                   reply>>

ProbeNext == Classify \/ Measure

ProbeSpec == ProbeInit /\ [][ProbeNext]_vars

\* ------------------------------------------------------------ properties
\* The directional condition of a tier with threshold t (in thousandths) on a
\* change c = <<numerator, denominator>>.
TierHolds(t, c) ==
    \/ t < 0 /\ c[1] * 1000 <= t * c[2]
    \/ t > 0 /\ c[1] * 1000 >= t * c[2]

\* The highest-severity tier of levels whose condition holds, 0 for none.
MostSevere(levels, c) ==
    LET hit == {i \in 1..Len(levels) : TierHolds(levels[i].threshold, c)} IN
    IF hit = {} THEN 0 ELSE CHOOSE i \in hit : \A k \in hit : k <= i

\* The alerts for an index among the messages of a run.
AlertsFor(r, index_name) ==
    {i \in 1..Len(r.sent) : r.sent[i].kind = "alert" /\ r.sent[i].index_name = index_name}

Digests(r) == {i \in 1..Len(r.sent) : r.sent[i].kind = "digest"}

Finished(r) == r.pc = "returned"

\* The initial arming has run.
Armed == ~\E j \in jobs : j.callback = "update_morning_job"

\* In this step the daily-status send of a morning run returns or raises.
DigestSendEnds == \E r \in running : r.pc = "daily_status" /\ r \notin running'

\* In this step a morning run starts and returns without a send.
DigestRunCutShort ==
    /\ last' # last
    /\ Finished(last') /\ last'.is_morning_update /\ last'.sent = <<>>

\* C1: after stop_alerts the gate reads paused, and every digest tick leaves
\* the gate not paused, whatever the fetch or the digest send returned.
C1_DigestTickResetsGate ==
    [][ /\ stop_alerts => alerts_paused'
        /\ (DigestSendEnds \/ DigestRunCutShort) => ~alerts_paused' ]_vars

\* C2: on every calendar date the digest trigger fires at most once, also on
\* a date on which set_morning_time reconfigures the time.
C2_AtMostOneDigestPerDate == today.fires <= 1

\* C3 (as claimed): a date on which set_morning_time is called, and which had
\* had or was still to have its digest, ends with at least one digest fired.
C3_NoMissedDay ==
    [][ (Date(now') > Date(now) /\ today.reconfigured /\ today.owed)
            => today.fires >= 1 ]_vars

\* C3 (amended): a date on which set_morning_time is called ends with a
\* digest fired exactly when one had fired before the last call or the last
\* call's new time was still ahead on that date; with the new time already
\* passed and nothing fired yet, the first fire is on the next date.
C3_MissedOnlyWhenNewTimePassed ==
    [][ (Date(now') > Date(now) /\ today.reconfigured)
            => (today.fires >= 1 <=> (today.fired_before \/ today.ahead)) ]_vars

C3_Witness ==
    /\ today.reconfigured /\ today.owed
    /\ ~today.fired_before /\ today.ahead
    /\ today.fires = 1

\* C4: once armed, exactly one digest trigger is in the queue, and after a
\* successful set_morning_time it is the daily trigger at the new time.
C4_ExactlyOneDigestTrigger ==
    Armed =>
        /\ Cardinality(MorningJobs) = 1
        /\ (reply.command = "set_morning_time" /\ reply.result = "set") =>
               \A j \in MorningJobs :
                   /\ j.trigger = "cron"
                   /\ j.param = ist_to_utc(reply.time)
                   /\ j.next_run_time > now

C4_Witness ==
    /\ Armed
    /\ reply.command = "set_morning_time" /\ reply.result = "set" /\ reply.time = T1100
    /\ today.fires = 1
    /\ Cardinality(MorningJobs) = 1

\* C5: check_and_send_alert selects the highest-severity tier whose
\* directional condition holds, and none when no condition holds; tiers
\* -0.01, -0.03, -0.06 select WARNING for -0.04 and nothing for -0.005.
C5_HighestSeverityTier ==
    (probe.fn = "check_and_send_alert" /\ probe.result # -1) =>
        /\ probe.result = MostSevere(probe.levels, probe.change)
        /\ (probe.levels = ALERT_LEVELS /\ probe.change = <<-40, 1000>>)
               => probe.levels[probe.result].prefix = "WARNING"
        /\ (probe.levels = ALERT_LEVELS /\ probe.change = <<-5, 1000>>)
               => probe.result = 0

C5_Witness ==
    /\ probe.fn = "check_and_send_alert"
    /\ probe.levels = ALERT_LEVELS /\ probe.change = <<-40, 1000>>
    /\ probe.result = 2

\* C6: a run that read the gate as active has sent, for each index whose
\* change crosses a tier, exactly one alert, for the most severe tier crossed.
C6_OneAlertPerCrossingIndex ==
    (Finished(last) /\ last.gate_read = "active") =>
        \A q \in {<<"Sensex", last.sensex>>, <<"Nifty", last.nifty>>} :
            LET k == MostSevere(ALERT_LEVELS, q[2].price_change) IN
            k # 0 =>
                /\ Cardinality(AlertsFor(last, q[1])) = 1
                /\ \A i \in AlertsFor(last, q[1]) :
                       last.sent[i].prefix = ALERT_LEVELS[k].prefix

\* C7: a check run that read the gate as paused has sent no alert, and
\* every run that has sent an alert read the gate as active.
C7_PausedCheckSendsNoAlert ==
    /\ (Finished(last) /\ ~last.is_morning_update /\ last.gate_read = "paused")
           => last.sent = <<>>
    /\ \A r \in running \cup {last} :
           (\E i \in 1..Len(r.sent) : r.sent[i].kind = "alert") => r.gate_read = "active"

C7_Witness ==
    /\ Finished(last) /\ ~last.is_morning_update /\ last.gate_read = "paused"
    /\ MostSevere(ALERT_LEVELS, last.sensex.price_change) = 3
    /\ MostSevere(ALERT_LEVELS, last.nifty.price_change) = 3
    /\ last.sent = <<>>

\* C8: a run for which either quote is unavailable sends nothing, neither
\* digest nor alert, and is over at once.
C8_NoQuoteNoMessage ==
    \A r \in running \cup {last} :
        (r.pc # "never" /\ (r.sensex.none \/ r.nifty.none)) =>
            r.sent = <<>> /\ Finished(r)

C8_Witness ==
    /\ Finished(last) /\ last.is_morning_update
    /\ ~last.sensex.none /\ last.nifty.none
    /\ MostSevere(ALERT_LEVELS, last.sensex.price_change) = 3
    /\ last.sent = <<>>

\* C9: a morning run with both quotes available sends exactly one digest,
\* first, then resets the gate and reads it as active, then sends the alerts
\* its changes warrant; with both changes below the lowest tier it sends one
\* digest and no alert and leaves the gate active.
C9_DigestThenResetThenAlerts ==
    (Finished(last) /\ last.is_morning_update /\ ~last.sensex.none /\ ~last.nifty.none) =>
        /\ Digests(last) = {1}
        /\ last.gate_read = "active"
        /\ \A q \in {<<"Sensex", last.sensex>>, <<"Nifty", last.nifty>>} :
               (MostSevere(ALERT_LEVELS, q[2].price_change) # 0)
                   <=> (AlertsFor(last, q[1]) # {})
        /\ (Len(last.sent) = 1) => ~alerts_paused

\* C10: a send that raises leaves the gate as a delivered send would have
\* left it (active, for the daily-status send) and leaves the queue alone.
C10_FailedSendLeavesGateAsDelivered ==
    [][ \A r \in running :
            (r \notin running' /\ last' = Returned(r, "error")) =>
                /\ alerts_paused' = (IF r.pc = "daily_status" THEN FALSE ELSE alerts_paused)
                /\ jobs' = jobs ]_vars

\* C11: at most one check_prices run is in flight at any time: no run
\* starts while another is suspended at a send.
C11_OneRunInFlight == Cardinality(running) <= 1

\* set_morning_time has just replied with a rejection.
Rejected(r) ==
    r.command = "set_morning_time" /\ r.result \in {"usage", "Invalid time format"}

\* C12: a set_morning_time call with no argument, more than one argument or
\* a malformed time is rejected, and the rejected call leaves the configured
\* time, the queue (digest trigger and check trigger) and the gate unchanged;
\* only a well-formed time is ever accepted.
C12_RejectedCallMutatesNothing ==
    [][ /\ Rejected(reply') =>
               /\ MORNING_UPDATE_TIME' = MORNING_UPDATE_TIME
               /\ jobs' = jobs
               /\ alerts_paused' = alerts_paused
        /\ (reply'.command = "set_morning_time" /\ ~Rejected(reply')) =>
               /\ reply'.time \in TimeStrings
               /\ MORNING_UPDATE_TIME' = reply'.time ]_vars

C12_Witness ==
    /\ reply.command = "set_morning_time" /\ reply.result = "Invalid time format"
    /\ MORNING_UPDATE_TIME = T1100
    /\ alerts_paused
    /\ Armed

\* The reference clock read in local (IST) time.
LocalDate(t) == (t + IstOffset) \div DaySeconds
LocalTimeOfDay(t) == (t + IstOffset) % DaySeconds
LocalSeconds(time_str) == Strptime(time_str).hour * 3600 + Strptime(time_str).minute * 60

\* In this step the digest trigger is armed: by the run-once job of main()
\* or by an accepted set_morning_time.
DigestArmed ==
    \/ ~Armed /\ Armed'
    \/ reply'.command = "set_morning_time" /\ reply'.result = "set"

\* C13: arming the digest trigger sets its first fire to the next future
\* instant whose local time of day is the configured time: on the local date
\* of the arming when that time is still to come, else on the next local
\* date; 09:15 armed at 10:00 fires on the next date, armed at 08:00 on the
\* same date.
C13_FirstFireAtNextOccurrence ==
    [][ DigestArmed =>
          \A j \in MorningJobs' :
              LET configured == LocalSeconds(MORNING_UPDATE_TIME') IN
              /\ j.next_run_time > now
              /\ LocalTimeOfDay(j.next_run_time) = configured
              /\ LocalDate(j.next_run_time) =
                     IF configured > LocalTimeOfDay(now) THEN LocalDate(now)
                     ELSE LocalDate(now) + 1
              /\ (MORNING_UPDATE_TIME' = T0915 /\ LocalTimeOfDay(now) = 10 * 3600)
                     => LocalDate(j.next_run_time) = LocalDate(now) + 1
              /\ (MORNING_UPDATE_TIME' = T0915 /\ LocalTimeOfDay(now) = 8 * 3600)
                     => LocalDate(j.next_run_time) = LocalDate(now) ]_vars

C13_Witness ==
    /\ Armed
    /\ MORNING_UPDATE_TIME = T0915
    /\ LocalTimeOfDay(now) = 10 * 3600 /\ LocalDate(now) = 0
    /\ \E j \in MorningJobs :
           LocalDate(j.next_run_time) = 1 /\ LocalTimeOfDay(j.next_run_time) = 9 * 3600 + 15 * 60

FetchFailure == [ok |-> FALSE, close |-> <<>>]

\* The triggers of a queue, whatever their next run times.
Triggers(js) == {[j EXCEPT !.next_run_time = 0] : j \in js}

\* In this step a check_prices job comes due and the data provider fails.
FetchFails ==
    \E j \in jobs :
        /\ j.callback = "check_prices" /\ Due(j)
        /\ jobs' # jobs
        /\ \A k \in jobs \ {j} : k \in jobs'
        /\ last' = check_prices(j, FetchFailure, FetchFailure, alerts_paused)

\* The run of the step just taken ended on a failure of the data provider.
FetchFailed == Finished(last) /\ last.outcome = "error" /\ last.sensex.none /\ last.nifty.none

\* No run is in flight and none has just returned.
Settled == running = {} /\ last = NoRun

\* A run with both quotes available is in flight or has just returned.
DataTick ==
    \E r \in running \cup {last} : r.pc # "never" /\ ~r.sensex.none /\ ~r.nifty.none

\* C14: a tick on which the data provider fails sends nothing and leaves the
\* gate, the configured time and the runs in flight as they were; both
\* triggers stay armed and the one that fired has its next run ahead; and
\* after a failing tick, once the queue has settled, a tick with data
\* available runs again.
C14_FetchFailureNotFatal ==
    /\ [][ FetchFails =>
              /\ last'.sent = <<>>
              /\ alerts_paused' = alerts_paused
              /\ MORNING_UPDATE_TIME' = MORNING_UPDATE_TIME
              /\ running' = running
              /\ Triggers(jobs') = Triggers(jobs)
              /\ Cardinality(jobs') = Cardinality(jobs)
              /\ \A k \in jobs' \ jobs : k.next_run_time > now ]_vars
    /\ [](FetchFailed => <>(Settled /\ <>DataTick))

C14_Witness ==
    /\ FetchFailed /\ last.is_morning_update
    /\ alerts_paused
    /\ Armed /\ Cardinality(jobs) = 2
    /\ \A j \in MorningJobs : j.next_run_time > now

\* In this step the send of a run of the repeating check job returns or raises.
CheckSendEnds == \E r \in running : ~r.is_morning_update /\ r \notin running'

\* C15: the gate starts active, and only stop_alerts, resume_alerts and the
\* reset after the daily-status send of a morning run write it: runs of the
\* repeating check job, /check, /status and /set_morning_time leave it as it
\* was.
C15_GateWriters ==
    /\ ~alerts_paused
    /\ [][ /\ (alerts_paused' # alerts_paused) =>
                  \/ reply'.command = "stop_alerts" /\ alerts_paused'
                  \/ reply'.command = "resume_alerts" /\ ~alerts_paused'
                  \/ DigestSendEnds /\ ~alerts_paused'
           /\ (reply'.command \in {"check", "status", "set_morning_time"})
                  => alerts_paused' = alerts_paused
           /\ (CheckSendEnds \/ (Finished(last') /\ ~last'.is_morning_update))
                  => alerts_paused' = alerts_paused ]_vars

C15_Witness ==
    /\ alerts_paused
    /\ Finished(last) /\ ~last.is_morning_update /\ last.outcome = "ok"
    /\ last.gate_read = "active" /\ Len(last.sent) = 2

\* The recurring check triggers in the queue.
CheckJobs == {j \in jobs : j.callback = "check_prices" /\ ~j.is_morning_update}

\* C16: at every instant exactly one recurring check trigger is armed, with
\* the interval CHECK_INTERVAL; a step that arms the digest trigger leaves it
\* as it was, and its next run time moves only when it fires, by one
\* interval.
C16_ExactlyOneCheckTrigger ==
    /\ [](/\ Cardinality(CheckJobs) = 1
          /\ \A j \in CheckJobs : j.trigger = "interval" /\ j.param = CHECK_INTERVAL)
    /\ [][ /\ DigestArmed => CheckJobs' = CheckJobs
           /\ (CheckJobs' # CheckJobs) =>
                  \E j \in CheckJobs :
                      /\ Due(j)
                      /\ CheckJobs' = {[j EXCEPT !.next_run_time = @ + CHECK_INTERVAL]} ]_vars

C16_Witness ==
    /\ reply.command = "set_morning_time" /\ reply.result = "set" /\ reply.time = T0700
    /\ Cardinality(CheckJobs) = 1
    /\ \E j \in CheckJobs : j.next_run_time = 2 * 3600 + 30 * 60 + FirstCheck + CHECK_INTERVAL
    /\ now > 3 * 3600 + 45 * 60

\* C17: calculate_price_change on a series of fewer than two closing prices
\* returns the triple of None and computes no change; on a longer series the
\* current price is the last element and the previous close the one before.
C17_LastTwoCloses ==
    (probe.fn = "calculate_price_change" /\ probe.result # -1) =>
        IF Len(probe.data) < 2
        THEN probe.quote.none /\ probe.quote = NoQuote
        ELSE /\ ~probe.quote.none
             /\ probe.quote.current = probe.data[Len(probe.data)]
             /\ probe.quote.previous_close = probe.data[Len(probe.data) - 1]
             /\ probe.quote.price_change =
                    <<probe.data[Len(probe.data)] - probe.data[Len(probe.data) - 1],
                      probe.data[Len(probe.data) - 1]>>

C17_Witness ==
    /\ probe.fn = "calculate_price_change" /\ probe.result # -1
    /\ probe.data = <<930, 1000, 1004>>
    /\ probe.quote.current = 1004 /\ probe.quote.previous_close = 1000

\* In this step a run hands an alert to send_message.
AlertSendStarts ==
    \E r \in running' \ running : r.pc \in {"alert_sensex", "alert_nifty"}

\* C18: while the gate stays paused no run hands an alert to send_message,
\* a run that was in flight when stop_alerts completed included; and the
\* daily-status send of a run that was in flight when stop_alerts completed
\* leaves the gate paused when it returns.
C18_PauseExcludesRunInFlight ==
    [][ /\ (alerts_paused /\ alerts_paused') => ~AlertSendStarts
        /\ (reply.command = "stop_alerts" /\ DigestSendEnds) => alerts_paused' ]_vars

\* C19: a run that read the gate as active, with both quotes available, has
\* handed a Nifty alert to send_message exactly when Nifty's change matches a
\* level, whether Sensex matched one or not and whether the send of the
\* Sensex alert returned or raised.
C19_NiftyAlertIndependent ==
    (Finished(last) /\ last.gate_read = "active") =>
        ((AlertsFor(last, "Nifty") # {})
             <=> (MostSevere(ALERT_LEVELS, last.nifty.price_change) # 0))

\* C20: once the digest trigger is armed, the trigger in the queue fires at
\* the local time of day that MORNING_UPDATE_TIME names, and that is the time
\* /status reports.
C20_ConfiguredTimeIsArmedTime ==
    Armed =>
        /\ MorningJobs # {}
        /\ \A j \in MorningJobs :
               /\ (j.param + IstOffset) % DaySeconds = LocalSeconds(MORNING_UPDATE_TIME)
               /\ LocalTimeOfDay(j.next_run_time) = LocalSeconds(MORNING_UPDATE_TIME)
        /\ (reply.command = "status") => reply.time = MORNING_UPDATE_TIME

C20_Witness ==
    /\ Armed
    /\ reply.command = "status" /\ reply.time = T1100
    /\ \E j \in MorningJobs : j.param = 5 * 3600 + 30 * 60
    /\ today.reconfigured

====
